---- MODULE Spec2Model ----
(***************************************************************************)
(* faststatus: the Status and Resource value types (package resource) and  *)
(* the Current HTTP endpoint (package server).                             *)
(*                                                                         *)
(* Go strings and byte slices are sequences of one-character tokens.  A    *)
(* uint64 is the tuple of its 16 hexadecimal digits, most significant      *)
(* first, which keeps all 64 bits without integers of that size.  A        *)
(* JSON text is the value it parses to: a record tagged "num", "str",      *)
(* "obj", or "bad" for bytes that are not JSON at all; "nil" is the        *)
(* nil byte slice.  An error value is the chain of its wrappers, outermost *)
(* first; the empty chain is nil.                                          *)
(***************************************************************************)
EXTENDS Integers, Sequences, FiniteSets, TLC

(***************************************************************************)
(* s, r       a Status and a Resource variable of a caller                 *)
(* last       the method call in progress: name, argument, receiver before *)
(* err        the error the call returned                                  *)
(* out        the caller's byte buffer, filled by MarshalJSON              *)
(* text       the string String or Pretty returned                         *)
(* sent       the Resource whose encoding out holds                        *)
(* req        the request ServeHTTP is serving                             *)
(* db         the "resources" bucket: key |-> stored bytes                 *)
(* ids        the ids ServeHTTP hands to getResource                       *)
(* written    the responses written to the ResponseWriter, in order        *)
(* calls      the method handlers ServeHTTP called                         *)
(* hpc, gpc   where the handler and the reader goroutine stand             *)
(* gi, raw    the reader's index into ids and the value it read            *)
(* got        the value the handler received from rch                      *)
(* rch        the operations performed on channel rch, in order            *)
(* done       channel done: "none", "open" or "closed"                     *)
(* resources  the Resources the handler has decoded                        *)
(***************************************************************************)
VARIABLES s, r, last, err, out, text, sent, req, db, ids, written, calls, hpc, gpc, gi, raw, got, rch, done, resources

vars == <<s, r, last, err, out, text, sent, req, db, ids, written, calls, hpc, gpc, gi, raw, got, rch, done, resources>>

valueVars == <<s, r, last, err, out, text, sent>>

serverVars == <<req, db, ids, written, calls, hpc, gpc, gi, raw, got, rch, done, resources>>

(***************************************************************************)
(* Bounds of the model.                                                    *)
(***************************************************************************)
\* Resource statuses and JSON status numbers range over 0..MaxStatusSample
\* and the two ends of the byte range.
MaxStatusSample == 3

\* Longest request path, in segments.
MaxPath == 2

(***************************************************************************)
(* Errors.                                                                 *)
(***************************************************************************)
NoError == <<>>

ErrOutOfRange == <<"ErrOutOfRange">>

SyntaxError == <<"json.SyntaxError">>

UnmarshalTypeError == <<"json.UnmarshalTypeError">>

TimeParseError == <<"time.ParseError">>

NumErrSyntax == <<"strconv.NumError", "strconv.ErrSyntax">>

NumErrRange == <<"strconv.NumError", "strconv.ErrRange">>

TimeYearError == <<"Time.MarshalJSON: year outside of range [0,9999]">>

MarshalerError(e) == <<"json.MarshalerError">> \o e

Cause(e) == <<e[Len(e)]>>

(***************************************************************************)
(* JSON values.                                                            *)
(***************************************************************************)
NoBytes == [t |-> "nil"]

Malformed == [t |-> "bad"]

JNum(n) == [t |-> "num", n |-> n]

JStr(v) == [t |-> "str", v |-> v]

JObj(f) == [t |-> "obj", f |-> f]

(***************************************************************************)
(* Status (src/unnamed/part_000).                                          *)
(***************************************************************************)
MaxUint8 == 255

Uint8 == 0..MaxUint8

Free == 0

Busy == 1

Occupied == 2

inRange(st) == st <= Occupied

forceRangeIdentity(st) == st

forceRange(st) == IF ~inRange(st) THEN Free ELSE st

\* strconv.FormatUint(n, 10) for a byte
DecimalDigits == <<"0", "1", "2", "3", "4", "5", "6", "7", "8", "9">>

RECURSIVE FormatUint10(_)
FormatUint10(n) ==
    IF n < 10 THEN <<DecimalDigits[n + 1]>>
    ELSE FormatUint10(n \div 10) \o <<DecimalDigits[(n % 10) + 1]>>

StatusString(st) == FormatUint10(forceRange(st))

StatusPretty(st) ==
    LET f == forceRange(st)
    IN  IF f = Busy THEN <<"B", "u", "s", "y">>
        ELSE IF f = Occupied THEN <<"O", "c", "c", "u", "p", "i", "e", "d">>
        ELSE IF f = Free THEN <<"F", "r", "e", "e">>
        ELSE <<>>

\* Status.MarshalJSON: [out, err]
StatusMarshalLenient(st) == [out |-> JNum(forceRange(st)), err |-> NoError]

StatusMarshalJSON(st) ==
    IF ~inRange(st) THEN [out |-> NoBytes, err |-> ErrOutOfRange]
    ELSE [out |-> JNum(st), err |-> NoError]

\* json.Unmarshal(raw, t) for t a *uint8 holding 0: [t, err]
UnmarshalUint8(bytes) ==
    IF bytes.t = "bad" THEN [t |-> 0, err |-> SyntaxError]
    ELSE IF bytes.t = "num" /\ bytes.n \in Uint8 THEN [t |-> bytes.n, err |-> NoError]
    ELSE [t |-> 0, err |-> UnmarshalTypeError]

\* Status.UnmarshalJSON on a receiver holding st: [s, err]
StatusUnmarshalKeepsBad(st, bytes) ==
    LET u == UnmarshalUint8(bytes)
    IN  IF u.err # NoError THEN [s |-> st, err |-> u.err]
        ELSE IF ~inRange(u.t) THEN [s |-> u.t, err |-> ErrOutOfRange]
        ELSE [s |-> u.t, err |-> NoError]

StatusUnmarshalJSON(st, bytes) ==
    LET u == UnmarshalUint8(bytes)
    IN  IF u.err # NoError THEN [s |-> st, err |-> u.err]
        ELSE IF ~inRange(u.t) THEN [s |-> Free, err |-> ErrOutOfRange]
        ELSE [s |-> u.t, err |-> NoError]

(***************************************************************************)
(* uint64 identifiers and their hexadecimal text (strconv, fmt).           *)
(***************************************************************************)
HexWidth == 16

UpperHex == <<"0", "1", "2", "3", "4", "5", "6", "7", "8", "9", "A", "B", "C", "D", "E", "F">>

LowerHex == <<"0", "1", "2", "3", "4", "5", "6", "7", "8", "9", "a", "b", "c", "d", "e", "f">>

IsHexChar(c) == \E i \in 1..16 : UpperHex[i] = c \/ LowerHex[i] = c

HexValue(c) == CHOOSE d \in 0..15 : UpperHex[d + 1] = c \/ LowerHex[d + 1] = c

RECURSIVE StripZeros(_)
StripZeros(digits) ==
    IF Len(digits) > 1 /\ digits[1] = 0 THEN StripZeros(Tail(digits)) ELSE digits

IdZero == [i \in 1..HexWidth |-> 0]

IdMax == [i \in 1..HexWidth |-> 15]

\* 0x0123456789ABCDEF
IdSample == [i \in 1..HexWidth |-> i - 1]

\* fmt.Sprintf("%X", id)
FormatHexPadded(id) == [i \in 1..HexWidth |-> UpperHex[id[i] + 1]]

FormatHexUpper(id) ==
    LET d == StripZeros(id) IN [i \in 1..Len(d) |-> UpperHex[d[i] + 1]]

\* strconv.FormatUint(id, 16)
FormatHexLower(id) ==
    LET d == StripZeros(id) IN [i \in 1..Len(d) |-> LowerHex[d[i] + 1]]

\* strconv.ParseUint(str, 16, 64): [id, err]
ParseUintDecimalOnly(str) ==
    IF str = <<>> \/ \E i \in 1..Len(str) : ~(IsHexChar(str[i]) /\ HexValue(str[i]) < 10)
    THEN [id |-> IdZero, err |-> NumErrSyntax]
    ELSE LET d == StripZeros([i \in 1..Len(str) |-> HexValue(str[i])])
             pad == HexWidth - Len(d)
         IN  IF Len(d) > HexWidth THEN [id |-> IdMax, err |-> NumErrRange]
             ELSE [id |-> [i \in 1..HexWidth |-> IF i <= pad THEN 0 ELSE d[i - pad]],
                   err |-> NoError]

ParseUint(str) ==
    IF str = <<>> \/ \E i \in 1..Len(str) : ~IsHexChar(str[i])
    THEN [id |-> IdZero, err |-> NumErrSyntax]
    ELSE LET d == StripZeros([i \in 1..Len(str) |-> HexValue(str[i])])
             pad == HexWidth - Len(d)
         IN  IF Len(d) > HexWidth THEN [id |-> IdMax, err |-> NumErrRange]
             ELSE [id |-> [i \in 1..HexWidth |-> IF i <= pad THEN 0 ELSE d[i - pad]],
                   err |-> NoError]

(***************************************************************************)
(* Strings in JSON (encoding/json): bytes that are not valid UTF-8, here   *)
(* the token "xFF", are replaced by U+FFFD when a string is written and    *)
(* when it is read.                                                        *)
(***************************************************************************)
CoerceUTF8(str) == [i \in 1..Len(str) |-> IF str[i] = "xFF" THEN "uFFFD" ELSE str[i]]

(***************************************************************************)
(* time.Time.  A value is its year, the rest of its wall clock reading (an *)
(* opaque token), its Location and whether it carries a monotonic clock    *)
(* reading.  Location "UTC" prints as "Z"; "Local" is the process's zone,  *)
(* taken to have a non-zero offset, which prints as LocalOffset and which  *)
(* Parse maps back to Local.                                               *)
(***************************************************************************)
LocalOffset == "+01:00"

RestTokens == {"-01-01T00:00:00", "-01-02T15:04:05"}

ZeroTime == [year |-> 1, rest |-> "-01-01T00:00:00", loc |-> "UTC", mono |-> FALSE]

\* 2006-01-02T15:04:05Z
RefTime == [year |-> 2006, rest |-> "-01-02T15:04:05", loc |-> "UTC", mono |-> FALSE]

\* a year that RFC 3339 cannot print
FarTime == [year |-> 10000, rest |-> "-01-02T15:04:05", loc |-> "UTC", mono |-> FALSE]

\* a time.Now() reading
NowTime == [year |-> 2006, rest |-> "-01-02T15:04:05", loc |-> "Local", mono |-> TRUE]

RECURSIVE PadLeft(_, _)
PadLeft(str, width) == IF Len(str) >= width THEN str ELSE PadLeft(<<"0">> \o str, width)

\* Time.Format(time.RFC3339)
TimeFormat(t) ==
    PadLeft(FormatUint10(t.year), 4) \o <<t.rest>>
        \o <<IF t.loc = "UTC" THEN "Z" ELSE LocalOffset>>

\* Time.MarshalJSON: [out, err]
TimeMarshalJSON(t) ==
    IF t.year < 0 \/ t.year > 9999 THEN [out |-> NoBytes, err |-> TimeYearError]
    ELSE [out |-> JStr(TimeFormat(t)), err |-> NoError]

IsDecimalChar(c) == \E i \in 1..10 : DecimalDigits[i] = c

DecimalValue(c) == CHOOSE d \in 0..9 : DecimalDigits[d + 1] = c

\* Time.UnmarshalJSON: [t, err]
TimeUnmarshalJSON(bytes) ==
    IF bytes.t # "str" THEN [t |-> ZeroTime, err |-> TimeParseError]
    ELSE LET v == bytes.v
         IN  IF /\ Len(v) = 6
                 /\ \A i \in 1..4 : IsDecimalChar(v[i])
                 /\ v[5] \in RestTokens
                 /\ v[6] \in {"Z", LocalOffset}
             THEN [t |-> [year |-> 1000 * DecimalValue(v[1]) + 100 * DecimalValue(v[2])
                                      + 10 * DecimalValue(v[3]) + DecimalValue(v[4]),
                          rest |-> v[5],
                          loc |-> IF v[6] = "Z" THEN "UTC" ELSE "Local",
                          mono |-> FALSE],
                   err |-> NoError]
             ELSE [t |-> ZeroTime, err |-> TimeParseError]

(***************************************************************************)
(* Resource (src/resource/resource.go).                                    *)
(***************************************************************************)
ZeroResource == [Id |-> IdZero, FriendlyName |-> <<>>, Status |-> Free, Since |-> ZeroTime]

\* Resource.String: "%s %v %016X %s"
ResourceString(rc) ==
    TimeFormat(rc.Since) \o <<" ">> \o StatusString(rc.Status) \o <<" ">>
        \o FormatHexPadded(rc.Id) \o <<" ">> \o rc.FriendlyName

Object(idv, namev, statusv, sincev) ==
    LET all == [k \in {"id", "friendlyName", "status", "since"} |->
                    CASE k = "id" -> idv
                      [] k = "friendlyName" -> namev
                      [] k = "status" -> statusv
                      [] k = "since" -> sincev]
        present == {k \in DOMAIN all : all[k].t # "absent"}
    IN  JObj([k \in present |-> all[k]])

\* Resource.MarshalJSON: [out, err]
ResourceMarshalJSON(rc) ==
    LET st == StatusMarshalJSON(rc.Status)
        ti == TimeMarshalJSON(rc.Since)
    IN  IF st.err # NoError THEN [out |-> NoBytes, err |-> MarshalerError(st.err)]
        ELSE IF ti.err # NoError THEN [out |-> NoBytes, err |-> MarshalerError(ti.err)]
        ELSE [out |-> Object(JStr(CoerceUTF8(FormatHexUpper(rc.Id))),
                             JStr(CoerceUTF8(rc.FriendlyName)), st.out, ti.out),
              err |-> NoError]

\* encoding/json matches an object key to a struct field by name, ignoring case.
Lower(k) ==
    CASE k \in {"Id", "id", "ID"} -> "id"
      [] k \in {"FriendlyName", "friendlyName", "friendlyname"} -> "friendlyname"
      [] k \in {"Status", "status"} -> "status"
      [] k \in {"Since", "since"} -> "since"
      [] OTHER -> k

Absent == [t |-> "absent"]

Member(bytes, field) ==
    IF \E k \in DOMAIN bytes.f : Lower(k) = Lower(field)
    THEN bytes.f[CHOOSE k \in DOMAIN bytes.f : Lower(k) = Lower(field)]
    ELSE Absent

\* json.Unmarshal of a string member into a string field: [v, err]
UnmarshalString(m) ==
    IF m.t = "absent" THEN [v |-> <<>>, err |-> NoError]
    ELSE IF m.t = "str" THEN [v |-> CoerceUTF8(m.v), err |-> NoError]
    ELSE [v |-> <<>>, err |-> UnmarshalTypeError]

\* json.Unmarshal(raw, tmp), tmp the zero value of the anonymous struct of
\* UnmarshalJSON: [tmp, err].  The Unmarshalers of Status and Since end the
\* decoding at their first error; a member of the wrong type is skipped and
\* reported at the end.
UnmarshalTmp(bytes) ==
    LET zero == [Id |-> <<>>, FriendlyName |-> <<>>, Status |-> Free, Since |-> ZeroTime]
    IN  IF bytes.t \in {"bad", "nil"} THEN [tmp |-> zero, err |-> SyntaxError]
        ELSE IF bytes.t # "obj" THEN [tmp |-> zero, err |-> UnmarshalTypeError]
        ELSE LET id == UnmarshalString(Member(bytes, "Id"))
                 name == UnmarshalString(Member(bytes, "FriendlyName"))
                 sm == Member(bytes, "Status")
                 st == IF sm.t = "absent" THEN [s |-> Free, err |-> NoError]
                       ELSE StatusUnmarshalJSON(Free, sm)
                 tm == Member(bytes, "Since")
                 ti == IF tm.t = "absent" THEN [t |-> ZeroTime, err |-> NoError]
                       ELSE TimeUnmarshalJSON(tm)
                 tmp == [Id |-> id.v, FriendlyName |-> name.v, Status |-> st.s, Since |-> ti.t]
             IN  IF st.err # NoError THEN [tmp |-> tmp, err |-> st.err]
                 ELSE IF ti.err # NoError THEN [tmp |-> tmp, err |-> ti.err]
                 ELSE IF id.err # NoError THEN [tmp |-> tmp, err |-> id.err]
                 ELSE [tmp |-> tmp, err |-> name.err]

\* Variants of Resource.UnmarshalJSON with one statement misplaced.
\* The fields are copied before the decoder's error is looked at.
ResourceUnmarshalCopyFirst(rc, bytes) ==
    LET u == UnmarshalTmp(bytes)
        r1 == [rc EXCEPT !.FriendlyName = u.tmp.FriendlyName,
                         !.Status = u.tmp.Status,
                         !.Since = u.tmp.Since]
        idText == IF Len(u.tmp.Id) = 0 THEN <<"0">> ELSE u.tmp.Id
        p == ParseUint(idText)
    IN  IF u.err # NoError THEN [r |-> r1, err |-> u.err]
        ELSE IF p.err # NoError THEN [r |-> r1, err |-> p.err]
        ELSE [r |-> [r1 EXCEPT !.Id = p.id], err |-> NoError]

\* The decoder fills the receiver itself, so an absent member leaves the
\* receiver's field as it was.
ResourceUnmarshalInPlace(rc, bytes) ==
    LET u == UnmarshalTmp(bytes)
    IN  IF u.err # NoError THEN [r |-> rc, err |-> u.err]
        ELSE LET r1 == [rc EXCEPT
                         !.FriendlyName = IF Member(bytes, "FriendlyName").t = "absent"
                                          THEN @ ELSE u.tmp.FriendlyName,
                         !.Status = IF Member(bytes, "Status").t = "absent"
                                    THEN @ ELSE u.tmp.Status,
                         !.Since = IF Member(bytes, "Since").t = "absent"
                                   THEN @ ELSE u.tmp.Since]
                 idText == IF Len(u.tmp.Id) = 0 THEN <<"0">> ELSE u.tmp.Id
                 p == ParseUint(idText)
             IN  IF p.err # NoError THEN [r |-> r1, err |-> p.err]
                 ELSE [r |-> [r1 EXCEPT !.Id = p.id], err |-> NoError]

\* The identifier is parsed before any field is assigned.
ResourceUnmarshalAtomic(rc, bytes) ==
    LET u == UnmarshalTmp(bytes)
        idText == IF Len(u.tmp.Id) = 0 THEN <<"0">> ELSE u.tmp.Id
        p == ParseUint(idText)
    IN  IF u.err # NoError THEN [r |-> rc, err |-> u.err]
        ELSE IF p.err # NoError THEN [r |-> rc, err |-> p.err]
        ELSE [r |-> [Id |-> p.id, FriendlyName |-> u.tmp.FriendlyName,
                     Status |-> u.tmp.Status, Since |-> u.tmp.Since],
              err |-> NoError]

\* Resource.UnmarshalJSON on a receiver holding rc: [r, err]
ResourceUnmarshalJSON(rc, bytes) ==
    LET u == UnmarshalTmp(bytes)
    IN  IF u.err # NoError THEN [r |-> rc, err |-> u.err]
        ELSE LET r1 == [rc EXCEPT !.FriendlyName = u.tmp.FriendlyName,
                                  !.Status = u.tmp.Status,
                                  !.Since = u.tmp.Since]
                 idText == IF Len(u.tmp.Id) = 0 THEN <<"0">> ELSE u.tmp.Id
                 p == ParseUint(idText)
             IN  IF p.err # NoError THEN [r |-> r1, err |-> p.err]
                 ELSE [r |-> [r1 EXCEPT !.Id = p.id], err |-> NoError]

(***************************************************************************)
(* The values and JSON texts the callers of the value types draw from.     *)
(***************************************************************************)
StatusSample == (0..MaxStatusSample) \cup {MaxUint8}

\* JSON texts handed to Status.UnmarshalJSON: every byte, the first number
\* past a byte, a string, and bytes that are not JSON.
StatusInputs ==
    {JNum(n) : n \in 0..(MaxUint8 + 1)} \cup {JStr(<<"1">>), Malformed}

Names == {<<"M", "y">>, <<"a", "xFF">>}

Times == {RefTime, FarTime, NowTime}

Resources ==
    [Id : {IdZero, IdSample, IdMax}, FriendlyName : Names, Status : StatusSample, Since : Times]

IdTexts ==
    {<<>>, FormatHexUpper(IdSample), FormatHexLower(IdMax), <<"z", "z">>,
     <<"1">> \o FormatHexPadded(IdZero)}

ResourceInputs ==
    {Object(idv, namev, statusv, sincev) :
        idv \in {Absent} \cup {JStr(x) : x \in IdTexts},
        namev \in {Absent, JStr(<<"a", "b">>)},
        statusv \in {Absent} \cup {JNum(n) : n \in StatusSample \cup {MaxUint8 + 1}},
        sincev \in {Absent, JStr(TimeFormat(RefTime)), JStr(<<"z", "z">>)}}
    \cup {Malformed, JNum(1)}

(***************************************************************************)
(* Callers of Status: one method call per step.  last records the call:    *)
(* its name, its argument and the receiver before it.                      *)
(***************************************************************************)
Call(op, bytes) == [op |-> op, raw |-> bytes, r0 |-> r, s0 |-> s]

Idle == [op |-> "idle", raw |-> NoBytes, r0 |-> ZeroResource, s0 |-> Free]

InitValues ==
    /\ s = Free
    /\ r = ZeroResource
    /\ last = Idle
    /\ err = NoError
    /\ out = NoBytes
    /\ text = <<>>
    /\ sent = <<>>

InitServerIdle ==
    /\ req = [method |-> "GET", path |-> <<>>, accept |-> <<>>]
    /\ db = <<>>
    /\ ids = <<>>
    /\ written = <<>>
    /\ calls = <<>>
    /\ hpc = "idle"
    /\ gpc = "none"
    /\ gi = 0
    /\ raw = NoBytes
    /\ got = NoBytes
    /\ rch = <<>>
    /\ done = "none"
    /\ resources = <<>>

\* The caller takes the results and goes on to its next statement.
Return ==
    /\ last.op # "idle"
    /\ last' = Idle
    /\ err' = NoError
    /\ text' = <<>>
    /\ sent' = IF out = NoBytes THEN <<>> ELSE sent
    /\ UNCHANGED <<s, r, out, serverVars>>

\* s = Status(v)
StatusAssign ==
    \E v \in Uint8 :
        /\ last.op = "idle"
        /\ s' = v
        /\ UNCHANGED <<r, last, err, out, text, sent, serverVars>>

CallStatusUnmarshalJSON ==
    \E bytes \in StatusInputs :
        LET res == StatusUnmarshalJSON(s, bytes)
        IN  /\ last.op = "idle"
            /\ s' = res.s
            /\ err' = res.err
            /\ last' = Call("Status.UnmarshalJSON", bytes)
            /\ out' = NoBytes
            /\ UNCHANGED <<r, text, sent, serverVars>>

CallStatusMarshalJSON ==
    LET res == StatusMarshalJSON(s)
    IN  /\ last.op = "idle"
        /\ out' = res.out
        /\ err' = res.err
        /\ last' = Call("Status.MarshalJSON", NoBytes)
        /\ UNCHANGED <<s, r, text, sent, serverVars>>

CallStatusString ==
    /\ last.op = "idle"
    /\ text' = StatusString(s)
    /\ last' = Call("Status.String", NoBytes)
    /\ UNCHANGED <<s, r, err, out, sent, serverVars>>

CallStatusPretty ==
    /\ last.op = "idle"
    /\ text' = StatusPretty(s)
    /\ last' = Call("Status.Pretty", NoBytes)
    /\ UNCHANGED <<s, r, err, out, sent, serverVars>>

InitStatus == InitValues /\ InitServerIdle

NextStatus ==
    \/ StatusAssign
    \/ CallStatusUnmarshalJSON
    \/ CallStatusMarshalJSON
    \/ CallStatusString
    \/ CallStatusPretty
    \/ Return

SpecStatus == InitStatus /\ [][NextStatus]_vars

\* C1: Status.UnmarshalJSON of a number v in 0..255 succeeds and leaves the
\* Status equal to v when v is 0, 1 or 2; for every other v it returns
\* ErrOutOfRange and leaves the Status Free, whatever the Status held before.
C1_StatusUnmarshalContract ==
    (last.op = "Status.UnmarshalJSON" /\ last.raw.t = "num" /\ last.raw.n \in 0..255) =>
        IF last.raw.n \in {0, 1, 2}
        THEN err = NoError /\ s = last.raw.n
        ELSE err = ErrOutOfRange /\ s = 0

C1_Witness ==
    /\ last.op = "Status.UnmarshalJSON"
    /\ last.raw = JNum(255)
    /\ last.s0 = 2
    /\ s = 0
    /\ err = ErrOutOfRange

\* C6: for every Status bit pattern 0..255, String returns "0"/"1"/"2" for
\* 0/1/2 and "0" above 2, Pretty returns "Free"/"Busy"/"Occupied" for 0/1/2
\* and "Free" above 2; neither returns the empty string, neither fails, and
\* neither changes the Status it is called on.
C6_RenderersLenient ==
    /\ last.op = "Status.String" =>
        /\ text = (CASE last.s0 = 1 -> <<"1">> [] last.s0 = 2 -> <<"2">> [] OTHER -> <<"0">>)
        /\ s = last.s0
        /\ err = NoError
    /\ last.op = "Status.Pretty" =>
        /\ text = (CASE last.s0 = 1 -> <<"B", "u", "s", "y">>
                     [] last.s0 = 2 -> <<"O", "c", "c", "u", "p", "i", "e", "d">>
                     [] OTHER -> <<"F", "r", "e", "e">>)
        /\ s = last.s0
        /\ err = NoError

C6_Witness == last.op = "Status.Pretty" /\ last.s0 = 200 /\ text = <<"F", "r", "e", "e">>

(***************************************************************************)
(* Callers of Resource.  out is the caller's byte buffer: MarshalJSON      *)
(* fills it, and while it is filled UnmarshalJSON decodes it; sent is the  *)
(* Resource whose encoding the buffer holds.  With the buffer empty        *)
(* UnmarshalJSON is handed bytes from outside.                             *)
(***************************************************************************)
\* direct assignment of the four fields
ResourceAssign ==
    \E rc \in Resources :
        /\ last.op = "idle"
        /\ r' = rc
        /\ UNCHANGED <<s, last, err, out, text, sent, serverVars>>

CallResourceMarshalJSON ==
    LET res == ResourceMarshalJSON(r)
    IN  /\ last.op = "idle"
        /\ out' = res.out
        /\ err' = res.err
        /\ sent' = IF res.err = NoError THEN <<r>> ELSE <<>>
        /\ last' = Call("Resource.MarshalJSON", NoBytes)
        /\ UNCHANGED <<s, r, text, serverVars>>

CallResourceUnmarshalJSON ==
    \E bytes \in (IF out = NoBytes THEN ResourceInputs ELSE {out}) :
        LET res == ResourceUnmarshalJSON(r, bytes)
        IN  /\ last.op = "idle"
            /\ r' = res.r
            /\ err' = res.err
            /\ last' = Call("Resource.UnmarshalJSON", bytes)
            /\ out' = NoBytes
            /\ UNCHANGED <<s, text, sent, serverVars>>

CallResourceString ==
    /\ last.op = "idle"
    /\ text' = ResourceString(r)
    /\ last' = Call("Resource.String", NoBytes)
    /\ UNCHANGED <<s, r, err, out, sent, serverVars>>

InitResource == InitValues /\ InitServerIdle

NextResource ==
    \/ ResourceAssign
    \/ CallResourceMarshalJSON
    \/ CallResourceUnmarshalJSON
    \/ CallResourceString
    \/ Return

SpecResource == InitResource /\ [][NextResource]_vars

(***************************************************************************)
(* Claims about Resource.                                                  *)
(***************************************************************************)
Decoding == last.op = "Resource.UnmarshalJSON"

\* the member of the decoded object under the key MarshalJSON writes
Given(k) ==
    IF last.raw.t = "obj" /\ k \in DOMAIN last.raw.f THEN last.raw.f[k] ELSE Absent

\* a Resource as spec.md section 3 describes it: status in range, text for a
\* name, a UTC timestamp that RFC 3339 can print
Canonical(rc) ==
    /\ rc.Status \in {0, 1, 2}
    /\ \A i \in 1..Len(rc.FriendlyName) : rc.FriendlyName[i] # "xFF"
    /\ rc.Since.loc = "UTC"
    /\ rc.Since.year \in 0..9999

\* C2 as stated: MarshalJSON succeeds on every Resource whose status is in
\* range, whatever its id, name and since, and UnmarshalJSON of the output,
\* on a receiver with any prior contents, succeeds and yields that Resource.
C2_RoundTripAny ==
    /\ (last.op = "Resource.MarshalJSON" /\ last.r0.Status \in {0, 1, 2}) =>
            err = NoError /\ out # NoBytes
    /\ (Decoding /\ sent # <<>>) => err = NoError /\ r = sent[1]

\* C2 amended: the round trip holds for every Resource whose status is in
\* range, whose name is valid UTF-8 and whose since is a UTC time of a year
\* in 0..9999: MarshalJSON succeeds, and UnmarshalJSON of its output, on a
\* receiver with any prior contents, succeeds and yields the same Resource.
C2_RoundTrip ==
    /\ (last.op = "Resource.MarshalJSON" /\ Canonical(last.r0)) =>
            err = NoError /\ out # NoBytes
    /\ (Decoding /\ sent # <<>> /\ Canonical(sent[1])) => err = NoError /\ r = sent[1]

C2_Witness ==
    /\ Decoding
    /\ sent = <<[Id |-> IdSample, FriendlyName |-> <<"M", "y">>, Status |-> 1, Since |-> RefTime]>>
    /\ last.r0 = [Id |-> IdMax, FriendlyName |-> <<"a", "xFF">>, Status |-> 255, Since |-> FarTime]
    /\ r = sent[1]
    /\ err = NoError

\* C3: MarshalJSON of a Resource whose status is outside {0,1,2} fails with
\* ErrOutOfRange and returns no bytes, whatever the id, name and since; a
\* call that succeeds had a status in range.
C3_MarshalStrict ==
    last.op = "Resource.MarshalJSON" =>
        /\ last.r0.Status \notin {0, 1, 2} =>
                /\ err # NoError
                /\ Cause(err) = ErrOutOfRange
                /\ out = NoBytes
        /\ err = NoError => last.r0.Status \in {0, 1, 2}

C3_Witness ==
    /\ last.op = "Resource.MarshalJSON"
    /\ last.r0.Status = 3
    /\ last.r0.Id = IdSample
    /\ err = MarshalerError(ErrOutOfRange)
    /\ out = NoBytes

StatusGivenOutOfRange == Given("status").t = "num" /\ Given("status").n \notin {0, 1, 2}

HexText(str) ==
    /\ \A i \in 1..Len(str) : str[i] \in {UpperHex[j] : j \in 1..16} \cup {LowerHex[j] : j \in 1..16}
    /\ \/ Len(str) <= 16
       \/ \A i \in 1..(Len(str) - 16) : str[i] = "0"

WellFormed ==
    /\ last.raw.t = "obj"
    /\ Given("id").t = "absent" \/ (Given("id").t = "str" /\ HexText(Given("id").v))
    /\ Given("friendlyName").t \in {"absent", "str"}
    /\ Given("status").t = "absent" \/ (Given("status").t = "num" /\ Given("status").n \in {0, 1, 2})
    /\ Given("since").t = "absent" \/ Given("since") = JStr(<<"2", "0", "0", "6", "-01-02T15:04:05", "Z">>)

\* C5: UnmarshalJSON of well-formed input with any subset of the four
\* members succeeds; afterwards every absent field holds its zero value
\* (empty name, Free, zero time) whatever the Resource held before, and an
\* absent or empty identifier yields id 0.
C5_PartialInput ==
    (Decoding /\ WellFormed) =>
        /\ err = NoError
        /\ Given("friendlyName").t = "absent" => r.FriendlyName = <<>>
        /\ Given("status").t = "absent" => r.Status = 0
        /\ Given("since").t = "absent" =>
                r.Since = [year |-> 1, rest |-> "-01-01T00:00:00", loc |-> "UTC", mono |-> FALSE]
        /\ (Given("id").t = "absent" \/ Given("id") = JStr(<<>>)) =>
                r.Id = <<0, 0, 0, 0, 0, 0, 0, 0, 0, 0, 0, 0, 0, 0, 0, 0>>

C5_Witness ==
    /\ Decoding
    /\ last.raw = JObj(<<>>)
    /\ last.r0 = [Id |-> IdMax, FriendlyName |-> <<"M", "y">>, Status |-> 2, Since |-> RefTime]
    /\ r = ZeroResource
    /\ err = NoError

NonHexIdGiven ==
    /\ Given("id").t = "str"
    /\ \E i \in 1..Len(Given("id").v) :
          Given("id").v[i] \notin {UpperHex[j] : j \in 1..16} \cup {LowerHex[j] : j \in 1..16}

WellFormedButId ==
    /\ last.raw.t = "obj"
    /\ Given("friendlyName").t \in {"absent", "str"}
    /\ Given("status").t = "absent" \/ (Given("status").t = "num" /\ Given("status").n \in {0, 1, 2})
    /\ Given("since").t = "absent" \/ Given("since") = JStr(<<"2", "0", "0", "6", "-01-02T15:04:05", "Z">>)

\* C10: a present, non-hexadecimal identifier makes UnmarshalJSON fail (with
\* strconv's syntax error when the rest of the input decodes); no failed call
\* changes Id; a call that fails on malformed syntax or an out-of-range status
\* changes none of the four fields; a call that fails on the identifier has
\* already overwritten FriendlyName, Status and Since with the decoded values.
C10_FailureEffect ==
    Decoding =>
        /\ NonHexIdGiven => err # NoError
        /\ (NonHexIdGiven /\ WellFormedButId) => err = NumErrSyntax
        /\ err # NoError => r.Id = last.r0.Id
        /\ err \in {SyntaxError, ErrOutOfRange} => r = last.r0
        /\ (err = NumErrSyntax /\ NonHexIdGiven) =>
                /\ r.FriendlyName = (IF Given("friendlyName").t = "str"
                                     THEN Given("friendlyName").v ELSE <<>>)
                /\ r.Status = (IF Given("status").t = "num" THEN Given("status").n ELSE 0)
                /\ r.Since = (IF Given("since").t = "str" THEN RefTime ELSE ZeroTime)

C10_Witness ==
    /\ Decoding
    /\ err = NumErrSyntax
    /\ Given("id") = JStr(<<"z", "z">>)
    /\ last.r0 = [Id |-> IdSample, FriendlyName |-> <<"M", "y">>, Status |-> 2, Since |-> FarTime]
    /\ r = [Id |-> IdSample, FriendlyName |-> <<"a", "b">>, Status |-> 1, Since |-> RefTime]

(***************************************************************************)
(* Current (src/server/current.go).  A response is what one call wrote to  *)
(* the ResponseWriter: the status code, the message of http.Error, and the *)
(* body the encoder produced, as lines (text/plain) or as the members of a *)
(* JSON array.                                                             *)
(***************************************************************************)
Response(code, msg, lines, docs) == [code |-> code, msg |-> msg, lines |-> lines, docs |-> docs]

RECURSIVE textOrJson(_)
textOrJson(accepts) ==
    IF accepts = <<>> THEN "text/plain"
    ELSE IF Head(accepts) = "application/json" THEN "application/json"
    ELSE IF Head(accepts) \in {"text/plain", "*/*"} THEN "text/plain"
    ELSE textOrJson(Tail(accepts))

error404(accepts) ==
    IF textOrJson(accepts) = "application/json"
    THEN Response(404, "[]", <<>>, <<>>)
    ELSE Response(404, "Resource Not Found", <<>>, <<>>)

error500(accepts) ==
    IF textOrJson(accepts) = "application/json"
    THEN Response(500, "", <<>>, <<>>)
    ELSE Response(500, "Server Error", <<>>, <<>>)

\* idsFromPath, on the path split at "/": [ids, err]
RECURSIVE idsFromSegments(_, _)
idsFromSegments(segments, acc) ==
    IF segments = <<>> THEN [ids |-> acc, err |-> NoError]
    ELSE IF Head(segments) = <<>> THEN idsFromSegments(Tail(segments), acc)
    ELSE LET p == ParseUint(Head(segments))
         IN  IF p.err # NoError THEN [ids |-> acc, err |-> <<"Error parsing ids">> \o p.err]
             ELSE idsFromSegments(Tail(segments), Append(acc, p.id))

idsFromPath(path) == idsFromSegments(path, <<>>)

\* encode_json: [body, err]
encode_json(rs) ==
    LET enc == [i \in 1..Len(rs) |-> ResourceMarshalJSON(rs[i])]
    IN  IF \E i \in 1..Len(rs) : enc[i].err # NoError
        THEN [body |-> Response(200, "", <<>>, <<>>),
              err |-> enc[CHOOSE i \in 1..Len(rs) : enc[i].err # NoError
                                    /\ \A j \in 1..(i - 1) : enc[j].err = NoError].err]
        ELSE [body |-> Response(200, "", <<>>, [i \in 1..Len(rs) |-> enc[i].out]),
              err |-> NoError]

\* encode_text: [body, err]
encode_text(rs) ==
    [body |-> Response(200, "", [i \in 1..Len(rs) |-> ResourceString(rs[i])], <<>>),
     err |-> NoError]

encoder(accept, rs) ==
    IF accept = "application/json" THEN encode_json(rs) ELSE encode_text(rs)

\* b.Get(key): nil when the bucket has no such key
Get(key) == IF key \in DOMAIN db THEN db[key] ELSE NoBytes

\* the select of the reader: its second case is ready once done is closed
DoneNeverReady == FALSE

DoneReady == done = "closed"

Closed(ch) == \E i \in 1..Len(ch) : ch[i] \in {"close by goroutine", "close by handler"}

\* resources = append(resources, *rc)
CollectFront(rs, rc) == <<rc>> \o rs

Collect(rs, rc) == Append(rs, rc)

(***************************************************************************)
(* The requests and the contents of the "resources" bucket.  The bucket is *)
(* written by no code of the repository; it holds, under the lower-case    *)
(* hexadecimal key of an id, the MarshalJSON form of a Resource, or bytes  *)
(* that do not decode.                                                     *)
(***************************************************************************)
Methods == {"GET", "PUT", "POST", "DELETE", "PATCH"}

Segments == {<<>>, <<"1">>, <<"A">>, <<"z", "z">>}

Paths == UNION {[1..n -> Segments] : n \in 0..MaxPath}

Accepts == {<<>>, <<"application/json">>, <<"*/*", "application/json">>}

IdOne == [i \in 1..HexWidth |-> IF i = HexWidth THEN 1 ELSE 0]

IdA == [i \in 1..HexWidth |-> IF i = HexWidth THEN 10 ELSE 0]

StoredOne == [Id |-> IdOne, FriendlyName |-> <<"M", "y">>, Status |-> Busy, Since |-> RefTime]

StoredA == [Id |-> IdA, FriendlyName |-> <<"a", "b">>, Status |-> Occupied, Since |-> ZeroTime]

Store(one, a) ==
    LET v == [k \in {FormatHexLower(IdOne), FormatHexLower(IdA)} |->
                 IF k = FormatHexLower(IdOne) THEN one ELSE a]
    IN  [k \in {x \in DOMAIN v : v[x] # NoBytes} |-> v[k]]

StoredValues ==
    {ResourceMarshalJSON(StoredOne).out, ResourceMarshalJSON(StoredA).out, Malformed}

Stores ==
    {Store(one, a) : one \in {NoBytes, ResourceMarshalJSON(StoredOne).out, Malformed},
                     a \in {NoBytes, ResourceMarshalJSON(StoredA).out, Malformed}}

\* rc := new(resource.Resource); err := rc.UnmarshalJSON(raw), tabulated over
\* the values a bucket holds
Decode(bytes) == ResourceUnmarshalJSON(ZeroResource, bytes)

decoded == [v \in StoredValues |-> Decode(v)]

InitServer ==
    /\ InitValues
    /\ req = [method |-> "GET", path |-> <<>>, accept |-> <<>>]
    /\ db \in Stores
    /\ ids = <<>>
    /\ written = <<>>
    /\ calls = <<>>
    /\ hpc = "idle"
    /\ gpc = "none"
    /\ gi = 0
    /\ raw = NoBytes
    /\ got = NoBytes
    /\ rch = <<>>
    /\ done = "none"
    /\ resources = <<>>

\* net/http hands a request to the handler
Request ==
    \E m \in Methods, p \in Paths, a \in Accepts :
        /\ hpc = "idle"
        /\ req' = [method |-> m, path |-> p, accept |-> a]
        /\ hpc' = "serve"
        /\ UNCHANGED <<valueVars, db, ids, written, calls, gpc, gi, raw, got, rch, done, resources>>

\* Current.ServeHTTP up to the return of the empty handlers, or up to the
\* call of getResource
ServeHTTP ==
    LET p == idsFromPath(req.path)
        w == IF p.err # NoError THEN <<error404(req.accept)>> ELSE <<>>
    IN  /\ hpc = "serve"
        /\ ids' = p.ids
        /\ IF req.method = "GET"
           THEN /\ calls' = <<"getResource">>
                /\ written' = w
                /\ hpc' = "get"
           ELSE IF req.method = "PUT"
           THEN /\ calls' = <<"putResource">>
                /\ written' = w
                /\ hpc' = "done"
           ELSE IF req.method = "POST"
           THEN /\ calls' = <<"postResource">>
                /\ written' = w
                /\ hpc' = "done"
           ELSE IF req.method = "DELETE"
           THEN /\ calls' = <<"deleteResource">>
                /\ written' = w
                /\ hpc' = "done"
           ELSE /\ calls' = <<>>
                /\ written' = Append(w, Response(405, "Method Not Allowed", <<>>, <<>>))
                /\ hpc' = "done"
        /\ UNCHANGED <<valueVars, req, db, gpc, gi, raw, got, rch, done, resources>>

\* getResource, lines 142-163: the empty id list, or the channels and the
\* reader goroutine
getResource ==
    /\ hpc = "get"
    /\ IF Len(ids) = 0
       THEN /\ written' = Append(written, error404(req.accept))
            /\ hpc' = "done"
            /\ UNCHANGED <<rch, done, gpc, gi, resources>>
       ELSE /\ rch' = <<"make">>
            /\ done' = "open"
            /\ gpc' = "get"
            /\ gi' = 1
            /\ resources' = <<>>
            /\ hpc' = "recv"
            /\ UNCHANGED written
    /\ UNCHANGED <<valueVars, req, db, ids, calls, raw, got>>

\* the reader: raw := b.Get(key of the next id)
readerGet ==
    /\ gpc = "get"
    /\ gi <= Len(ids)
    /\ raw' = Get(FormatHexLower(ids[gi]))
    /\ gpc' = "select"
    /\ UNCHANGED <<valueVars, req, db, ids, written, calls, hpc, gi, got, rch, done, resources>>

\* the reader's send meets the handler's receive (rch is unbuffered); a send
\* on a closed channel panics
readerSend ==
    /\ gpc = "select"
    /\ IF Closed(rch)
       THEN /\ rch' = Append(rch, "send")
            /\ gpc' = "panic"
            /\ UNCHANGED <<hpc, got, gi>>
       ELSE /\ hpc = "recv"
            /\ rch' = Append(rch, "send")
            /\ got' = raw
            /\ hpc' = "handle"
            /\ gpc' = "get"
            /\ gi' = gi + 1
    /\ UNCHANGED <<valueVars, req, db, ids, written, calls, raw, done, resources>>

\* the reader's case <-done: return nil, and the deferred close(rch)
readerDone ==
    /\ gpc = "select"
    /\ DoneReady
    /\ rch' = Append(rch, "close by goroutine")
    /\ gpc' = IF Closed(rch) THEN "panic" ELSE "exit"
    /\ UNCHANGED <<valueVars, req, db, ids, written, calls, hpc, gi, raw, got, done, resources>>

\* the reader's loop is over: return nil, and the deferred close(rch)
readerReturn ==
    /\ gpc = "get"
    /\ gi > Len(ids)
    /\ rch' = Append(rch, "close by goroutine")
    /\ gpc' = IF Closed(rch) THEN "panic" ELSE "exit"
    /\ UNCHANGED <<valueVars, req, db, ids, written, calls, hpc, gi, raw, got, done, resources>>

\* the handler's range over rch ends when rch is closed
rangeEnd ==
    /\ hpc = "recv"
    /\ Closed(rch)
    /\ hpc' = "after"
    /\ UNCHANGED <<valueVars, req, db, ids, written, calls, gpc, gi, raw, got, rch, done, resources>>

\* the body of the range loop, lines 165-174; a return closes done
handleRaw ==
    /\ hpc = "handle"
    /\ IF got = NoBytes
       THEN /\ hpc' = "recv"
            /\ UNCHANGED <<written, done, resources>>
       ELSE LET res == decoded[got]
            IN  IF res.err # NoError
                THEN /\ written' = Append(written, error500(req.accept))
                     /\ done' = "closed"
                     /\ hpc' = "done"
                     /\ UNCHANGED resources
                ELSE /\ resources' = Collect(resources, res.r)
                     /\ hpc' = "recv"
                     /\ UNCHANGED <<written, done>>
    /\ UNCHANGED <<valueVars, req, db, ids, calls, gpc, gi, raw, got, rch>>

\* lines 176-187: nothing found, or the encoded resources; the return closes done
respond ==
    /\ hpc = "after"
    /\ IF Len(resources) = 0
       THEN written' = Append(written, error404(req.accept))
       ELSE LET e == encoder(textOrJson(req.accept), resources)
            IN  IF e.err # NoError
                THEN written' = Append(written, error500(req.accept))
                ELSE written' = Append(written, e.body)
    /\ done' = "closed"
    /\ hpc' = "done"
    /\ UNCHANGED <<valueVars, req, db, ids, calls, gpc, gi, raw, got, rch, resources>>

Handler == ServeHTTP \/ getResource \/ rangeEnd \/ handleRaw \/ respond

Reader == readerGet \/ readerSend \/ readerDone \/ readerReturn

NextServer ==
    \/ Request
    \/ ServeHTTP
    \/ getResource
    \/ readerGet
    \/ readerSend
    \/ readerDone
    \/ readerReturn
    \/ rangeEnd
    \/ handleRaw
    \/ respond

SpecServer == InitServer /\ [][NextServer]_vars

\* The Go scheduler runs every goroutine that can take a step.
FairSpecServer == SpecServer /\ WF_vars(Handler) /\ WF_vars(Reader)

(***************************************************************************)
(* Claims about Current.                                                   *)
(***************************************************************************)
HexChars ==
    {"0", "1", "2", "3", "4", "5", "6", "7", "8", "9",
     "A", "B", "C", "D", "E", "F", "a", "b", "c", "d", "e", "f"}

PathParses ==
    \A i \in 1..Len(req.path) : \A j \in 1..Len(req.path[i]) : req.path[i][j] \in HexChars

\* the ids the path asks for, as their segments, and those the bucket holds
Asked == SelectSeq(req.path, LAMBDA sg : sg # <<>>)

KeyOf(sg) == IF sg = <<"A">> THEN <<"a">> ELSE sg

Found == SelectSeq(Asked, LAMBDA sg : KeyOf(sg) \in DOMAIN db)

WantsJson == req.accept = <<"application/json">>

LineOf(sg) ==
    IF sg = <<"1">>
    THEN <<"2", "0", "0", "6", "-01-02T15:04:05", "Z", " ", "1", " ",
           "0", "0", "0", "0", "0", "0", "0", "0", "0", "0", "0", "0", "0", "0", "0", "1",
           " ", "M", "y">>
    ELSE <<"0", "0", "0", "1", "-01-01T00:00:00", "Z", " ", "2", " ",
           "0", "0", "0", "0", "0", "0", "0", "0", "0", "0", "0", "0", "0", "0", "0", "A",
           " ", "a", "b">>

ExpectedResponse ==
    IF Found = <<>>
    THEN [code |-> 404, msg |-> IF WantsJson THEN "[]" ELSE "Resource Not Found",
          lines |-> <<>>, docs |-> <<>>]
    ELSE IF \E i \in 1..Len(Found) : db[KeyOf(Found[i])] = Malformed
    THEN [code |-> 500, msg |-> IF WantsJson THEN "" ELSE "Server Error",
          lines |-> <<>>, docs |-> <<>>]
    ELSE IF WantsJson
    THEN [code |-> 200, msg |-> "", lines |-> <<>>,
          docs |-> [i \in 1..Len(Found) |-> db[KeyOf(Found[i])]]]
    ELSE [code |-> 200, msg |-> "", lines |-> [i \in 1..Len(Found) |-> LineOf(Found[i])],
          docs |-> <<>>]

C8_BadPathOnly404 ==
    (hpc = "done" /\ ~PathParses) =>
        /\ calls = <<>>
        /\ written = <<[code |-> 404, msg |-> IF WantsJson THEN "[]" ELSE "Resource Not Found",
                        lines |-> <<>>, docs |-> <<>>]>>

Closes(ch) == Cardinality({i \in 1..Len(ch) : ch[i] \in {"close by goroutine", "close by handler"}})

ChannelUsedWell ==
    /\ gpc # "panic"
    /\ Closes(rch) <= 1
    /\ \A i \in 1..Len(rch) : rch[i] # "close by handler"
    /\ \A i \in 1..Len(rch) : \A j \in 1..Len(rch) :
            (rch[i] \in {"close by goroutine", "close by handler"} /\ rch[j] = "send") => j < i
    /\ gpc = "exit" => Closes(rch) = 1

====
